---- MODULE Spec2Model ----
(***************************************************************************)
(* tzfile-reader: the TZif decoder (src/src/entities.rs) and the CLI that  *)
(* drives it (src/src/main.rs): a single-file parse followed by the        *)
(* per-name aggregation loop, and the recursive batch walk.                *)
(*                                                                         *)
(* Bytes are 0..255, byte strings are sequences (1-based here, 0-based in  *)
(* the source).  A usize is represented by its two's-complement view: a    *)
(* small non-negative number stands for itself and a small negative number *)
(* n stands for 2^64 + n, which is what `n as usize` yields for a negative *)
(* i32 (sign extension).  Comparisons and overflow tests on usize values   *)
(* are made in the unsigned order through ULe / UAddOverflows / ...        *)
(***************************************************************************)
EXTENDS Integers, Sequences, FiniteSets, TLC

VARIABLES pc, overflow_checks, input, result, panic, end, idx, table, stack, reported,
          printed

vars == <<pc, overflow_checks, input, result, panic, end, idx, table, stack, reported,
          printed>>

(* ------------------------------ bounds -------------------------------- *)
MaxTimeCnt == 3
MaxTypeCnt == 2
MaxCount == 1
MaxFiles == 2
MaxDepth == 1

(* ------------------------- byte-level helpers -------------------------- *)
Min(a, b) == IF a < b THEN a ELSE b

\* i32::from_be_bytes: the big-endian two's-complement value of four bytes
from_be_bytes(b) ==
    (IF b[1] >= 128 THEN b[1] - 256 ELSE b[1]) * 16777216
        + b[2] * 65536 + b[3] * 256 + b[4]

\* `b == 1` of the indicator sections and of tt_isdst
byte_is_one(b) == b = 1

\* the replacement character U+FFFD in UTF-8
REPLACEMENT == <<239, 191, 189>>

\* String::from_utf8_lossy on byte strings whose only non-ASCII byte is one
\* that can start or continue no UTF-8 sequence (0xFF here): every such byte
\* is replaced by U+FFFD, every ASCII byte (NUL included) is kept
RECURSIVE from_utf8_lossy(_)
from_utf8_lossy(bytes) ==
    IF bytes = <<>> THEN <<>>
    ELSE (IF bytes[1] < 128 THEN <<bytes[1]>> ELSE REPLACEMENT)
            \o from_utf8_lossy(Tail(bytes))

\* slice.chunks(w): consecutive pieces of w bytes, the last one maybe shorter
chunks(s, w) ==
    [i \in 1..((Len(s) + w - 1) \div w) |->
        SubSeq(s, (i - 1) * w + 1, Min(i * w, Len(s)))]

(* --------------------------- usize arithmetic -------------------------- *)
\* `x as usize` of an i32: sign extension, the identity on the signed view
as_usize(x) == x

\* unsigned a <= b on signed views
ULe(a, b) == IF (a < 0) = (b < 0) THEN a <= b ELSE b < 0

\* a * w leaves the usize range (w a small positive element width)
UMulOverflows(a, w) == a < 0 /\ w >= 2

\* a + b leaves the usize range
UAddOverflows(a, b) ==
    \/ a < 0 /\ b < 0
    \/ (a < 0) # (b < 0) /\ a + b >= 0

\* a - b goes below zero
USubOverflows(a, b) == ~ ULe(b, a)

(* ------------------------------ results -------------------------------- *)
Ok(v) == [kind |-> "Ok", v |-> v]
Err(msg) == [kind |-> "Err", msg |-> msg]
Panic(why, at) == [kind |-> "Panic", why |-> why, at |-> at]
NoResult == [kind |-> "None"]

(* ---------------------------- TzFileHeader ----------------------------- *)
MAGIC == <<84, 90, 105, 102>>

TzFileHeader_try_from(value) ==
    LET magic == from_utf8_lossy(SubSeq(value, 1, 4)) IN
    IF magic # MAGIC
    THEN Err("invalid TZ Info magic header")
    ELSE Ok([magic |-> magic,
             version |-> value[5],
             reserved |-> SubSeq(value, 6, 20),
             tzh_ttisutcnt |-> from_be_bytes(SubSeq(value, 21, 24)),
             tzh_ttisstdcnt |-> from_be_bytes(SubSeq(value, 25, 28)),
             tzh_leapcnt |-> from_be_bytes(SubSeq(value, 29, 32)),
             tzh_timecnt |-> from_be_bytes(SubSeq(value, 33, 36)),
             tzh_typecnt |-> from_be_bytes(SubSeq(value, 37, 40)),
             tzh_charcnt |-> from_be_bytes(SubSeq(value, 41, 44))])

(* ------------------------------- TTInfo -------------------------------- *)
\* size_of::<TTInfo>() under repr(C): i32 + bool + u8, padded to 4-alignment
size_of_TTInfo == 8
size_of_i32 == 4
size_of_pair == 8

\* faulty variant: the in-memory size used as the wire width
ttinfo_size_unpadded_full == size_of_TTInfo

\* the padding is 2 for ttinfo
ttinfo_size_unpadded == size_of_TTInfo - 2

TTInfo_from_bytes(bytes) ==
    IF Len(bytes) # 6
    THEN Err("invalid number of bytes")
    ELSE Ok([tt_utoff |-> from_be_bytes(SubSeq(bytes, 1, 4)),
             tt_isdst |-> byte_is_one(bytes[5]),
             tt_desigidx |-> bytes[6]])

\* iter.flat_map(f) over Results: the Ok values in order, the Errs dropped
RECURSIVE flat_map_ok(_)
flat_map_ok(rs) ==
    IF rs = <<>> THEN <<>>
    ELSE (IF rs[1].kind = "Ok" THEN <<rs[1].v>> ELSE <<>>) \o flat_map_ok(Tail(rs))

(* ----------------------------- TzFileBody ------------------------------ *)
\* bytes[left_idx..left_idx + cnt as usize * width]: the range the slice
\* expression denotes, or the panic it raises.  With overflow checks (debug
\* profile) a wrapping product or sum panics; without them it wraps and the
\* slice bounds check decides.
section(bytes, left_idx, cnt, width, checks, name) ==
    LET n == as_usize(cnt)
        size == n * width
        hi == left_idx + size
    IN  IF checks /\ (UMulOverflows(n, width) \/ UAddOverflows(left_idx, size))
        THEN Panic("arithmetic overflow", name)
        ELSE IF ~ ULe(left_idx, hi)
        THEN Panic("slice index starts after its end", name)
        ELSE IF ~ ULe(hi, Len(bytes))
        THEN Panic("range end index out of range", name)
        ELSE [kind |-> "Ok", lo |-> left_idx, hi |-> hi,
              v |-> SubSeq(bytes, left_idx + 1, hi)]

from_bytes_and_header(bytes, header, checks) ==
    LET s1 == section(bytes, 0, header.tzh_timecnt, size_of_i32, checks, "tt_trans") IN
    IF s1.kind # "Ok" THEN s1 ELSE
    LET s2 == section(bytes, s1.hi, header.tzh_timecnt, 1, checks, "ttinfo_indices") IN
    IF s2.kind # "Ok" THEN s2 ELSE
    LET s3 == section(bytes, s2.hi, header.tzh_typecnt, ttinfo_size_unpadded, checks,
                      "ttinfo_entries") IN
    IF s3.kind # "Ok" THEN s3 ELSE
    LET s4 == section(bytes, s3.hi, header.tzh_charcnt, 1, checks, "tz_designations") IN
    IF s4.kind # "Ok" THEN s4 ELSE
    LET s5 == section(bytes, s4.hi, header.tzh_leapcnt, size_of_pair, checks, "leap_pairs") IN
    IF s5.kind # "Ok" THEN s5 ELSE
    LET s6 == section(bytes, s5.hi, header.tzh_ttisstdcnt, 1, checks, "std_indicators") IN
    IF s6.kind # "Ok" THEN s6 ELSE
    LET s7 == section(bytes, s6.hi, header.tzh_ttisutcnt, 1, checks, "ut_indicators") IN
    IF s7.kind # "Ok" THEN s7 ELSE
    LET c1 == chunks(s1.v, size_of_i32)
        c3 == chunks(s3.v, ttinfo_size_unpadded)
        c5 == chunks(s5.v, size_of_pair)
    IN  Ok([tt_trans |-> [i \in DOMAIN c1 |-> from_be_bytes(c1[i])],
            ttinfo_indices |-> s2.v,
            ttinfo_entries |-> flat_map_ok([i \in DOMAIN c3 |-> TTInfo_from_bytes(c3[i])]),
            tz_designations |-> from_utf8_lossy(s4.v),
            leap_pairs |-> [i \in DOMAIN c5 |->
                              <<from_be_bytes(SubSeq(c5[i], 1, 4)),
                                from_be_bytes(SubSeq(c5[i], 5, 8))>>],
            std_indicators |-> [i \in DOMAIN s6.v |-> byte_is_one(s6.v[i])],
            ut_indicators |-> [i \in DOMAIN s7.v |-> byte_is_one(s7.v[i])]])

(* ------------------------------- TzFile -------------------------------- *)
HEADER_SIZE == 44

\* faulty variant: only the magic is required to be present
too_short_lax(bytes_count) == bytes_count < 4

\* if bytes_count < 44
too_short(bytes_count) == bytes_count < HEADER_SIZE

TzFile_from_bytes(bytes, checks) ==
    LET bytes_count == Len(bytes) IN
    IF too_short(bytes_count)
    THEN Err("invalid header size")
    ELSE
    LET header_bytes == [i \in 1..HEADER_SIZE |->
                            IF i <= bytes_count THEN bytes[i] ELSE 0]
        h == TzFileHeader_try_from(header_bytes)
    IN  IF h.kind = "Err"
        THEN Err("header is invalid")
        ELSE IF HEADER_SIZE > bytes_count
        THEN Panic("range start index out of range", "bytes[44..]")
        ELSE
        LET b == from_bytes_and_header(SubSeq(bytes, HEADER_SIZE + 1, bytes_count),
                                       h.v, checks)
        IN  IF b.kind = "Ok" THEN Ok([header |-> h.v, body |-> b.v])
            ELSE IF b.kind = "Err" THEN Err("invalid bytes for Tz File body")
            ELSE b

\* a file on disk: readable with some content, or not readable
File(content) == [readable |-> TRUE, content |-> content]
Unreadable == [readable |-> FALSE, content |-> <<>>]

\* err.context(..): a new outermost message, the root cause kept
Context(msg, root) == [kind |-> "Err", msg |-> msg, root |-> root]

parse_tzif(file, checks) ==
    IF ~ file.readable
    THEN Context("tried to read file", "io error")
    ELSE LET t == TzFile_from_bytes(file.content, checks) IN
         IF t.kind = "Err" THEN Context("could not parse file as tzif", t.msg) ELSE t

(* ------------------------- aggregation (main) -------------------------- *)
Some(v) == [some |-> TRUE, v |-> v]
None == [some |-> FALSE]

\* str::is_char_boundary: the ends of the string, and every byte that is not
\* a UTF-8 continuation byte (0x80..0xBF)
is_char_boundary(s, i) ==
    \/ i = 0
    \/ i = Len(s)
    \/ i < Len(s) /\ (s[i + 1] < 128 \/ s[i + 1] >= 192)

\* s.get(i..)
str_get_from(s, i) ==
    IF i <= Len(s) /\ is_char_boundary(s, i)
    THEN Some(SubSeq(s, i + 1, Len(s)))
    ELSE None

\* s.split_once('\0'): the text before the first NUL and the text after it
split_once_nul(s) ==
    IF \E k \in 1..Len(s) : s[k] = 0
    THEN LET k == CHOOSE k \in 1..Len(s) : s[k] = 0 /\ \A j \in 1..(k - 1) : s[j] # 0
         IN  Some(<<SubSeq(s, 1, k - 1), SubSeq(s, k + 1, Len(s))>>)
    ELSE None

\* ttinfo_indices[..len - 1]: the exclusive end of the loop's range
loop_range(len, checks) ==
    IF USubOverflows(len, 1)
    THEN IF checks THEN Panic("attempt to subtract with overflow", "len - 1")
         ELSE Panic("range end index out of range", "ttinfo_indices[..len - 1]")
    ELSE Ok(len - 1)

Timezone(name, ut_offset, is_daylight_savings, transitions) ==
    [name |-> name, ut_offset |-> ut_offset,
     is_daylight_savings |-> is_daylight_savings, transitions |-> transitions]

\* faulty variant: an existing record takes the offset and DST flag of the
\* latest position
table_update_overwrite(t, tz_name, trans, ttinfo) ==
    IF tz_name \in DOMAIN t
    THEN [t EXCEPT ![tz_name] =
            Timezone(tz_name, ttinfo.tt_utoff, ttinfo.tt_isdst,
                     Append(@.transitions, trans))]
    ELSE t @@ (tz_name :> Timezone(tz_name, ttinfo.tt_utoff, ttinfo.tt_isdst, <<>>))

\* the if let Some(tz) = table.get_mut(..) { push } else { insert } statement:
\* a new record starts with transitions: vec![]
table_update(t, tz_name, trans, ttinfo) ==
    IF tz_name \in DOMAIN t
    THEN [t EXCEPT ![tz_name].transitions = Append(@, trans)]
    ELSE t @@ (tz_name :> Timezone(tz_name, ttinfo.tt_utoff, ttinfo.tt_isdst, <<>>))

\* the designation a local-time-type record resolves to, or the panic of
\* the unwrap that fails
tz_name_of(body, ttinfo) ==
    LET g == str_get_from(body.tz_designations, ttinfo.tt_desigidx) IN
    IF ~ g.some THEN Panic("unwrap on None", "tz_designations.get") ELSE
    LET sp == split_once_nul(g.v) IN
    IF ~ sp.some THEN Panic("unwrap on None", "split_once") ELSE Ok(sp.v[1])

\* one iteration of the loop, at 0-based position i
loop_body(t, body, i) ==
    IF i >= Len(body.tt_trans)
    THEN Panic("index out of bounds", "tt_trans") ELSE
    LET trans == body.tt_trans[i + 1]
        ttinfo_idx == body.ttinfo_indices[i + 1]
    IN  IF ttinfo_idx >= Len(body.ttinfo_entries)
        THEN Panic("index out of bounds", "ttinfo_entries") ELSE
        LET ttinfo == body.ttinfo_entries[ttinfo_idx + 1]
            nm == tz_name_of(body, ttinfo)
        IN  IF nm.kind # "Ok" THEN nm
            ELSE Ok(table_update(t, nm.v, trans, ttinfo))

EmptyTable == <<>>

(* ------------------------------- inputs -------------------------------- *)
\* the four big-endian bytes of an i32
to_be_bytes(n) ==
    LET m == IF n < 0 THEN n + 2147483647 + 1 ELSE n
        top == m \div 16777216
    IN  <<(IF n < 0 THEN top + 128 ELSE top),
          (m \div 65536) % 256, (m \div 256) % 256, m % 256>>

RECURSIVE Concat(_)
Concat(ss) == IF ss = <<>> THEN <<>> ELSE ss[1] \o Concat(Tail(ss))

Zeros(n) == [i \in 1..n |-> 0]

\* a 44-byte header: magic, version, 15 reserved bytes, the six counts
MkHeader(magic, version, isutcnt, isstdcnt, leapcnt, timecnt, typecnt, charcnt) ==
    magic \o <<version>> \o Zeros(15)
        \o to_be_bytes(isutcnt) \o to_be_bytes(isstdcnt) \o to_be_bytes(leapcnt)
        \o to_be_bytes(timecnt) \o to_be_bytes(typecnt) \o to_be_bytes(charcnt)

MkTTInfo(r) == to_be_bytes(r[1]) \o <<r[2], r[3]>>

BAD_MAGIC == <<84, 90, 105, 120>>

\* local-time-type records <<utoff, isdst byte, desigidx>>
TTChoices == {<<0, 0, 0>>, <<3600, 1, 0>>, <<-3600, 2, 2>>}

\* designation blobs: "UTC\0", "AB" (no NUL), an invalid byte, empty
Blobs == {<<85, 84, 67, 0>>, <<65, 66>>, <<255, 65, 0>>, <<>>}

\* transition times: 100, 200, then negative and multi-byte values
Times == [i \in 1..MaxTimeCnt |->
            IF i <= 2 THEN 100 * i ELSE IF i % 2 = 1 THEN -5 * i ELSE 70000 * i]

\* files whose body has exactly the declared size: transitions, type
\* indices, type records and designations vary
AggFiles ==
    { File(MkHeader(MAGIC, 50, 0, 0, 0, Len(ix), Len(ty), Len(blob))
            \o Concat([i \in 1..Len(ix) |-> to_be_bytes(Times[i])])
            \o ix
            \o Concat([i \in 1..Len(ty) |-> MkTTInfo(ty[i])])
            \o blob) :
        blob \in Blobs,
        ix \in UNION {[1..n -> 0..MaxTypeCnt] : n \in 0..MaxTimeCnt},
        ty \in UNION {[1..n -> TTChoices] : n \in 0..MaxTypeCnt} }

FillPattern == <<1, 0, 65, 0, 2, 1, 255, 0, 66>>
Fill(n) == [i \in 1..n |-> FillPattern[((i - 1) % Len(FillPattern)) + 1]]

Needed(isutcnt, isstdcnt, leapcnt, timecnt, typecnt, charcnt) ==
    5 * timecnt + 6 * typecnt + charcnt + 8 * leapcnt + isstdcnt + isutcnt

\* files with every combination of the six counts and every body length
\* from empty to one byte more than the counts need
SliceFiles ==
    { File(MkHeader(MAGIC, 0, c[1], c[2], c[3], c[4], c[5], c[6]) \o Fill(c[7])) :
        c \in { d \in (0..MaxCount) \X (0..MaxCount) \X (0..MaxCount) \X (0..MaxCount)
                     \X (0..MaxCount) \X (0..MaxCount)
                     \X (0..(6 * MaxCount + 16 * MaxCount + 1)) :
                  d[7] <= Needed(d[1], d[2], d[3], d[4], d[5], d[6]) + 1 } }

\* files in which one of the six counts is negative
NegFiles ==
    { File(MkHeader(MAGIC, 50,
                    IF p = 1 THEN n ELSE o, IF p = 2 THEN n ELSE o,
                    IF p = 3 THEN n ELSE o, IF p = 4 THEN n ELSE o,
                    IF p = 5 THEN n ELSE o, IF p = 6 THEN n ELSE o) \o Fill(l)) :
        p \in 1..6, n \in {-1, -2}, o \in 0..1, l \in {0, 1, 30} }

\* every prefix of a well-formed file and of a file with a wrong magic
ShortFiles ==
    { File(SubSeq(f, 1, Min(n, Len(f)))) :
        f \in {MkHeader(MAGIC, 0, 0, 0, 0, 1, 0, 0) \o Fill(5),
               MkHeader(BAD_MAGIC, 50, 0, 0, 0, 0, 0, 0),
               MkHeader(<<255, 90, 105, 102>>, 50, 0, 0, 0, 0, 0, 0)},
        n \in 0..49 }

Files == AggFiles \cup SliceFiles \cup NegFiles \cup ShortFiles \cup {Unreadable}

\* the files a walked directory holds: one of each kind of outcome
WalkFiles ==
    { File(MkHeader(MAGIC, 50, 0, 0, 0, 0, 1, 4) \o MkTTInfo(<<0, 0, 0>>) \o <<85, 84, 67, 0>>),
      File(SubSeq(MkHeader(MAGIC, 50, 0, 0, 0, 0, 0, 0), 1, 20)),
      File(MkHeader(BAD_MAGIC, 50, 0, 0, 0, 0, 0, 0)),
      File(MkHeader(MAGIC, 50, 0, 0, 0, 2, 0, 0) \o Fill(3)),
      File(MkHeader(MAGIC, 50, 0, 0, -1, 0, 0, 0)),
      Unreadable }

(* ------------------------------ actions -------------------------------- *)
Init ==
    /\ pc = "main"
    /\ overflow_checks \in BOOLEAN
    /\ input = Unreadable
    /\ result = NoResult
    /\ panic = NoResult
    /\ end = 0
    /\ idx = 0
    /\ table = EmptyTable
    /\ stack = <<>>
    /\ reported = 0
    /\ printed = 0

\* main with a locale argument: parse_tzif, then print the body or the error
MainParse ==
    /\ pc = "main"
    /\ \E file \in Files :
        /\ input' = file
        /\ result' = parse_tzif(file, overflow_checks)
    /\ pc' = CASE result'.kind = "Ok" -> "aggregate"
             [] result'.kind = "Err" -> "done"
             [] OTHER -> "panicked"
    /\ reported' = IF result'.kind = "Err" THEN reported + 1 ELSE reported
    /\ printed' = IF result'.kind = "Ok" THEN printed + 1 ELSE printed
    /\ panic' = IF result'.kind = "Panic" THEN result' ELSE panic
    /\ UNCHANGED <<overflow_checks, end, idx, table, stack>>

\* the table is created and the range of the for loop is evaluated
LoopEnter ==
    /\ pc = "aggregate"
    /\ LET r == loop_range(Len(result.v.body.ttinfo_indices), overflow_checks) IN
        IF r.kind = "Ok"
        THEN /\ pc' = "loop"
             /\ end' = r.v
             /\ panic' = panic
        ELSE /\ pc' = "panicked"
             /\ end' = end
             /\ panic' = r
    /\ idx' = 0
    /\ table' = EmptyTable
    /\ UNCHANGED <<overflow_checks, input, result, stack, reported, printed>>

\* one iteration of the for loop
LoopStep ==
    /\ pc = "loop"
    /\ idx < end
    /\ LET r == loop_body(table, result.v.body, idx) IN
        IF r.kind = "Ok"
        THEN /\ table' = r.v
             /\ idx' = idx + 1
             /\ UNCHANGED <<pc, panic>>
        ELSE /\ pc' = "panicked"
             /\ panic' = r
             /\ UNCHANGED <<table, idx>>
    /\ UNCHANGED <<overflow_checks, input, result, end, stack, reported, printed>>

\* the loop is over: the table is printed
LoopExit ==
    /\ pc = "loop"
    /\ idx >= end
    /\ pc' = "done"
    /\ printed' = printed + 1
    /\ UNCHANGED <<overflow_checks, input, result, panic, end, idx, table, stack, reported>>

(* ----------------------------- walk_dir -------------------------------- *)
\* a walk_dir activation: the entries its directory iterator still holds
\* and its tzs vector
Frame(n) == [remaining |-> n, tzs |-> <<>>]

Top == stack[Len(stack)]
SetTop(f) == [stack EXCEPT ![Len(stack)] = f]

\* main without an argument (locale "/"): walk_dir(zoneinfo)
MainWalk ==
    /\ pc = "main"
    /\ \E n \in 0..MaxFiles : stack' = <<Frame(n)>>
    /\ pc' = "walk"
    /\ UNCHANGED <<overflow_checks, input, result, panic, end, idx, table, reported, printed>>

\* Ok(entry) if entry.path().is_dir(): the recursive call
WalkSubdir ==
    /\ pc = "walk"
    /\ Top.remaining > 0
    /\ Len(stack) <= MaxDepth
    /\ \E n \in 0..MaxFiles :
        stack' = Append(SetTop([Top EXCEPT !.remaining = @ - 1]), Frame(n))
    /\ UNCHANGED <<pc, overflow_checks, input, result, panic, end, idx, table, reported,
                   printed>>

\* Ok(entry): parse_tzif; the file is pushed, or the error is printed and
\* the loop continues
WalkFile ==
    /\ pc = "walk"
    /\ Top.remaining > 0
    /\ \E file \in WalkFiles :
        /\ input' = file
        /\ result' = parse_tzif(file, overflow_checks)
    /\ IF result'.kind = "Ok"
       THEN /\ stack' = SetTop([remaining |-> Top.remaining - 1,
                                tzs |-> Append(Top.tzs, result'.v)])
            /\ UNCHANGED <<pc, reported, panic>>
       ELSE IF result'.kind = "Err"
       THEN /\ stack' = SetTop([Top EXCEPT !.remaining = @ - 1])
            /\ reported' = reported + 1
            /\ UNCHANGED <<pc, panic>>
       ELSE /\ stack' = SetTop([Top EXCEPT !.remaining = @ - 1])
            /\ pc' = "panicked"
            /\ panic' = result'
            /\ reported' = reported
    /\ UNCHANGED <<overflow_checks, end, idx, table, printed>>

\* Err(err): the iteration error is printed
WalkEntryError ==
    /\ pc = "walk"
    /\ Top.remaining > 0
    /\ stack' = SetTop([Top EXCEPT !.remaining = @ - 1])
    /\ reported' = reported + 1
    /\ UNCHANGED <<pc, overflow_checks, input, result, panic, end, idx, table, printed>>

\* the directory is exhausted: the bodies of tzs are printed and walk_dir
\* returns to its caller
WalkReturn ==
    /\ pc = "walk"
    /\ Top.remaining = 0
    /\ printed' = printed + Len(Top.tzs)
    /\ stack' = SubSeq(stack, 1, Len(stack) - 1)
    /\ pc' = IF Len(stack) = 1 THEN "walked" ELSE "walk"
    /\ UNCHANGED <<overflow_checks, input, result, panic, end, idx, table, reported>>

Next ==
    \/ MainParse
    \/ LoopEnter
    \/ LoopStep
    \/ LoopExit
    \/ MainWalk
    \/ WalkSubdir
    \/ WalkFile
    \/ WalkEntryError
    \/ WalkReturn

Spec == Init /\ [][Next]_vars

TypeOK ==
    /\ pc \in {"main", "aggregate", "loop", "walk", "walked", "done", "panicked"}
    /\ panic.kind \in {"None", "Panic"}
    /\ (pc = "panicked") = (panic.kind = "Panic")
    /\ overflow_checks \in BOOLEAN
    /\ result.kind \in {"None", "Ok", "Err", "Panic"}
    /\ idx \in 0..MaxTimeCnt
    /\ reported \in Nat
    /\ printed \in Nat

(* ====================== properties of the decoder ====================== *)
\* a file has been handed to parse_tzif and read
Parsed == result.kind # "None" /\ input.readable

Content == input.content
BodyLen == Len(Content) - HEADER_SIZE

\* the header of the current input (inputs of at least 44 bytes)
HeaderOf == TzFileHeader_try_from(SubSeq(Content, 1, HEADER_SIZE))

Counts(h) == <<h.tzh_ttisutcnt, h.tzh_ttisstdcnt, h.tzh_leapcnt,
               h.tzh_timecnt, h.tzh_typecnt, h.tzh_charcnt>>

NonNegative(h) == \A k \in 1..6 : Counts(h)[k] >= 0

NeededOf(h) ==
    Needed(h.tzh_ttisutcnt, h.tzh_ttisstdcnt, h.tzh_leapcnt,
           h.tzh_timecnt, h.tzh_typecnt, h.tzh_charcnt)

\* the input has a valid header and its body is shorter than the counts need
TruncatedInput ==
    /\ Parsed
    /\ Len(Content) >= HEADER_SIZE
    /\ HeaderOf.kind = "Ok"
    /\ NonNegative(HeaderOf.v)
    /\ NeededOf(HeaderOf.v) > BodyLen

\* C1: a body shorter than its sections need is answered with an error
\* value (TruncatedBody), never with a panic and never with a decoded body
C1_TruncatedBodyIsError == TruncatedInput => result.kind = "Err"

\* the input has a valid magic and at least one negative count
NegativeCountInput ==
    /\ Parsed
    /\ Len(Content) >= HEADER_SIZE
    /\ HeaderOf.kind = "Ok"
    /\ ~ NonNegative(HeaderOf.v)

\* C3: a header with a negative count makes from_bytes fail with an error
\* value: the header is not accepted and sizes no body section
C3_NegativeCountRejected == NegativeCountInput => result.kind = "Err"

\* the bytes of the body at 0-based offsets lo .. lo + n - 1
BodyBytes(lo, n) == SubSeq(Content, HEADER_SIZE + lo + 1, HEADER_SIZE + lo + n)

\* the input has a valid header and a body at least as long as needed
SufficientInput ==
    /\ Parsed
    /\ Len(Content) >= HEADER_SIZE
    /\ HeaderOf.kind = "Ok"
    /\ NonNegative(HeaderOf.v)
    /\ NeededOf(HeaderOf.v) <= BodyLen

\* C4: with a long enough body the decode succeeds and every section is
\* read at its closed-form offset (times at 0, indices at 4*timecnt, type
\* records at 5*timecnt, designations at 5*timecnt + 6*typecnt, leap pairs,
\* std and ut indicators directly after), with the declared element counts
C4_SectionsContiguous ==
    SufficientInput =>
        LET h == HeaderOf.v
            oTimes == 0
            oIdx == 4 * h.tzh_timecnt
            oTypes == 5 * h.tzh_timecnt
            oDesig == oTypes + 6 * h.tzh_typecnt
            oLeap == oDesig + h.tzh_charcnt
            oStd == oLeap + 8 * h.tzh_leapcnt
            oUt == oStd + h.tzh_ttisstdcnt
        IN  /\ result.kind = "Ok"
            /\ result.v.header = h
            /\ result.v.body.tt_trans =
                 [i \in 1..h.tzh_timecnt |-> from_be_bytes(BodyBytes(oTimes + 4 * (i - 1), 4))]
            /\ result.v.body.ttinfo_indices = BodyBytes(oIdx, h.tzh_timecnt)
            /\ result.v.body.ttinfo_entries =
                 [i \in 1..h.tzh_typecnt |->
                    [tt_utoff |-> from_be_bytes(BodyBytes(oTypes + 6 * (i - 1), 4)),
                     tt_isdst |-> BodyBytes(oTypes + 6 * (i - 1) + 4, 1) = <<1>>,
                     tt_desigidx |-> BodyBytes(oTypes + 6 * (i - 1) + 5, 1)[1]]]
            /\ result.v.body.tz_designations = from_utf8_lossy(BodyBytes(oDesig, h.tzh_charcnt))
            /\ result.v.body.leap_pairs =
                 [i \in 1..h.tzh_leapcnt |->
                    <<from_be_bytes(BodyBytes(oLeap + 8 * (i - 1), 4)),
                      from_be_bytes(BodyBytes(oLeap + 8 * (i - 1) + 4, 4))>>]
            /\ result.v.body.std_indicators =
                 [i \in 1..h.tzh_ttisstdcnt |-> BodyBytes(oStd + i - 1, 1) = <<1>>]
            /\ result.v.body.ut_indicators =
                 [i \in 1..h.tzh_ttisutcnt |-> BodyBytes(oUt + i - 1, 1) = <<1>>]

\* a file with all seven sections non-empty has been decoded
C4_Witness ==
    /\ SufficientInput
    /\ \A k \in 1..6 : Counts(HeaderOf.v)[k] >= 1
    /\ result.kind = "Ok"
    /\ Len(result.v.body.ttinfo_entries) >= 1
    /\ Len(result.v.body.ut_indicators) >= 1

\* C8: an input of fewer than 44 bytes is answered with the header-size
\* error value, whatever its bytes are: no panic and no decoded file
C8_ShortInputIsFormatError ==
    (Parsed /\ Len(Content) < HEADER_SIZE) =>
        /\ result.kind = "Err"
        /\ result.root = "invalid header size"

\* a short input that starts with the valid magic has been rejected
C8_Witness ==
    /\ Parsed
    /\ Len(Content) < HEADER_SIZE
    /\ Len(Content) >= 4
    /\ SubSeq(Content, 1, 4) = MAGIC
    /\ result.kind = "Err"

(* ===================== properties of the aggregation =================== *)
\* the aggregation loop of main is running or has run on a decoded file
Aggregating == pc \in {"loop", "done", "panicked"} /\ result.kind = "Ok" /\ stack = <<>>

Body == result.v.body

\* the type index at 0-based position i is not the index of a decoded record
BadTypeIndex(i) == Body.ttinfo_indices[i + 1] >= Len(Body.ttinfo_entries)

TypeAt(i) == Body.ttinfo_entries[Body.ttinfo_indices[i + 1] + 1]

\* the name position i resolves to (positions with a valid resolution)
NameAt(i) == tz_name_of(Body, TypeAt(i)).v

\* the transition times of the positions below n that resolve to name nm
RECURSIVE TransitionsOf(_, _)
TransitionsOf(nm, n) ==
    IF n = 0 THEN <<>>
    ELSE TransitionsOf(nm, n - 1)
            \o (IF NameAt(n - 1) = nm THEN <<Body.tt_trans[n]>> ELSE <<>>)

\* the loop has processed positions 0 .. idx-1 without aborting
Processed == IF Aggregating THEN 0..(idx - 1) ELSE {}

\* C2: the record of each name lists the transition times of all processed
\* positions resolving to that name, in file order (one element for a name
\* seen once)
C2_TransitionsPerName ==
    \A i \in Processed :
        /\ NameAt(i) \in DOMAIN table
        /\ table[NameAt(i)].transitions = TransitionsOf(NameAt(i), idx)

\* the loop has aborted at position idx
AbortedAt == Aggregating /\ pc = "panicked" /\ idx < end

\* C5: a type index that is not below typecnt is an error outcome: the loop
\* never aborts at a position with such an index
C5_BadTypeIndexIsError == ~ (AbortedAt /\ BadTypeIndex(idx))

\* the designation blob as it lies in the file
RawBlob ==
    LET h == result.v.header IN
    BodyBytes(5 * h.tzh_timecnt + 6 * h.tzh_typecnt, h.tzh_charcnt)

\* position i has a valid type whose designation index is one past the blob,
\* or lies in the blob with no NUL from there to the blob's end
DesignationFault(i) ==
    /\ ~ BadTypeIndex(i)
    /\ LET d == TypeAt(i).tt_desigidx IN
        \/ d = Len(RawBlob)
        \/ d < Len(RawBlob) /\ \A k \in (d + 1)..Len(RawBlob) : RawBlob[k] # 0

\* C6: such a position is an error outcome: the loop neither aborts at it
\* nor makes a record of it
C6_DesignationFaultIsError ==
    /\ ~ (AbortedAt /\ DesignationFault(idx))
    /\ \A i \in Processed : ~ DesignationFault(i)

\* the lowest processed position that resolves to name nm
FirstOf(nm) == CHOOSE i \in Processed :
                  NameAt(i) = nm /\ \A j \in Processed : NameAt(j) = nm => i <= j

\* C9: at every step of the loop the table holds exactly the names the
\* processed positions resolved to, and each record carries its name and the
\* offset and DST flag of the first position that resolved to it
C9_FirstSeenWins ==
    Aggregating =>
        /\ DOMAIN table = {NameAt(i) : i \in Processed}
        /\ \A nm \in DOMAIN table :
            /\ table[nm].name = nm
            /\ table[nm].ut_offset = TypeAt(FirstOf(nm)).tt_utoff
            /\ table[nm].is_daylight_savings = TypeAt(FirstOf(nm)).tt_isdst

\* two processed positions resolved to one name with different offsets
C9_Witness ==
    /\ Aggregating
    /\ pc = "done"
    /\ \E i, j \in Processed :
        /\ i < j
        /\ NameAt(i) = NameAt(j)
        /\ TypeAt(i).tt_utoff # TypeAt(j).tt_utoff
        /\ TypeAt(i).tt_isdst # TypeAt(j).tt_isdst
        /\ table[NameAt(i)].transitions # <<>>

\* C10: for a decoded file without transitions the aggregation does not
\* abort and its table stays empty
C10_EmptyIndexListCompletes ==
    (Aggregating /\ Body.ttinfo_indices = <<>>) => (pc # "panicked" /\ table = EmptyTable)

(* ====================== properties of the batch walk =================== *)
\* C7: a file's decode failure does not end the walk: the walk never stops
\* while a directory still has entries to process
C7_BatchSurvivesFailure ==
    (pc = "panicked" /\ stack # <<>>) => \A k \in 1..Len(stack) : stack[k].remaining = 0
====
